---- MODULE Spec2Model ----
(***************************************************************************)
(* A model of the dance scheduler (src/dance_scheduler.py): the Performer  *)
(* and Routine constructors with the list objects they share, the          *)
(* Scheduler constructor, the scoring functions and the placement search.  *)
(*                                                                         *)
(* Python lists are modelled as sequences; schedule positions keep the     *)
(* 0-based numbering of the source (At, PyIndex).  sys.maxsize is scaled   *)
(* to 2^20 - 1 so that sums of scores stay inside the integers of the      *)
(* model checker; it stays odd and far above every known duration.         *)
(***************************************************************************)
EXTENDS Integers, Sequences, FiniteSets, TLC

\* ------------------------------------------------------------------------
\* Bounds of the model
MaxPerformers == 2
MaxRoutines == 3

\* ------------------------------------------------------------------------
\* Constants of the program
MaxSize == 1048575
DefaultInterLength == 900
Empty == 0
Inter == MaxRoutines + 1
None == 0 - 2

VARIABLES
    defRoutines,    \* the list object that is Performer.__init__'s default
    defPerformers,  \* the list object that is Routine.__init__'s default
    pRoutines,      \* performer -> its routines attribute
    rPerformers,    \* routine   -> its performers attribute
    rOrder,         \* routine   -> order
    rDuration,      \* routine   -> duration
    rEnergy,        \* routine   -> energy
    routines,       \* Scheduler.routines (the input list)
    schedule,       \* Scheduler.schedule
    unused,         \* Scheduler.unused
    sPerformers,    \* Scheduler.performers
    interArg,       \* the interOrder argument of the Scheduler constructor
    order0,         \* the order each input routine was constructed with
    printed,        \* what the constructor and sortRoutines have printed
    lastCall,       \* the last call of a scoring function and its outcome
    status,         \* where the run is, or the exception that ended it
    stack           \* the calls of sortHelper that have not returned

heapVars == <<defRoutines, defPerformers, pRoutines, rPerformers,
              rOrder, rDuration, rEnergy>>
schedVars == <<routines, schedule, unused, sPerformers, interArg, order0,
               printed, lastCall, status, stack>>
vars == <<defRoutines, defPerformers, pRoutines, rPerformers,
          rOrder, rDuration, rEnergy,
          routines, schedule, unused, sPerformers, interArg, order0,
          printed, lastCall, status, stack>>

\* ------------------------------------------------------------------------
\* Sequences as Python lists
Range(s) == {s[i] : i \in 1..Len(s)}

Min(a, b) == IF a < b THEN a ELSE b

Max(a, b) == IF a > b THEN a ELSE b

Abs(a) == IF a < 0 THEN 0 - a ELSE a

\* all orders in which list(set(...)) may enumerate the elements of S
Perms(S) ==
    {s \in [1..Cardinality(S) -> S] : \A i, j \in 1..Cardinality(S) : s[i] = s[j] => i = j}

\* the lists without repetition a caller can build from the objects of S
DistinctLists(S) == UNION {Perms(T) : T \in SUBSET S}

\* one list of the elements of S (ascending), reordered by the callers below
RECURSIVE Ascending(_)
Ascending(S) ==
    IF S = {} THEN <<>>
    ELSE LET m == CHOOSE x \in S : \A y \in S : x <= y
         IN <<m>> \o Ascending(S \ {m})

\* the list [i \in 1..n |-> e] with its elements evaluated, once each
AsList(f) == f \o <<>>

\* s[lo:hi] for 0 <= lo, hi (Python slice, clamped to the list)
Slice(s, lo, hi) ==
    LET h == Min(hi, Len(s))
    IN IF lo >= h THEN <<>> ELSE AsList([k \in 1..(h - lo) |-> s[lo + k]])

\* ------------------------------------------------------------------------
\* The heap: a list attribute is either the shared default list of the
\* constructor (alias = TRUE) or a list of its own.
Own(l) == [alias |-> FALSE, list |-> l]

Shared == [alias |-> TRUE, list |-> <<>>]

RoutinesOf(dR, pR, p) == IF pR[p].alias THEN dR ELSE pR[p].list

PerformersOf(dP, rP, r) == IF rP[r].alias THEN dP ELSE rP[r].list

\* rout.performers.append(self); rout.performers = list(set(rout.performers))
\* for the routines of the list rs in turn; h = [dP, rP]
RECURSIVE LinkRoutines(_, _, _)
LinkRoutines(h, self, rs) ==
    IF rs = <<>> THEN h
    ELSE LET rout == Head(rs)
             old  == PerformersOf(h.dP, h.rP, rout)
             new  == Append(old, self)
             h2   == [dP |-> IF h.rP[rout].alias THEN new ELSE h.dP,
                      rP |-> [h.rP EXCEPT ![rout] = Own(Ascending(Range(new)))]]
         IN LinkRoutines(h2, self, Tail(rs))

\* perf.routines.append(self); perf.routines = list(set(perf.routines))
\* for the performers of the list ps in turn; h = [dR, pR]
RECURSIVE LinkPerformers(_, _, _)
LinkPerformers(h, self, ps) ==
    IF ps = <<>> THEN h
    ELSE LET perf == Head(ps)
             old  == RoutinesOf(h.dR, h.pR, perf)
             new  == Append(old, self)
             h2   == [dR |-> IF h.pR[perf].alias THEN new ELSE h.dR,
                      pR |-> [h.pR EXCEPT ![perf] = Own(Ascending(Range(new)))]]
         IN LinkPerformers(h2, self, Tail(ps))

\* the lists list(set(...)) rebuilt for the objects of T, in every order
\* the set may enumerate them
Reordered(attr, T) ==
    LET lists(x) == IF x \in T THEN {Own(s) : s \in Perms(Range(attr[x].list))}
                    ELSE {attr[x]}
        RECURSIVE upTo(_)
        upTo(k) == IF k = 0 THEN {<<>>}
                   ELSE {Append(f, l) : f \in upTo(k - 1), l \in lists(k)}
    IN upTo(Len(attr))

Performers == DOMAIN pRoutines

Routines == DOMAIN rPerformers

\* Performer.score
PerfScore(dR, pR, p) == Len(RoutinesOf(dR, pR, p)) * Len(RoutinesOf(dR, pR, p))

score(p) == PerfScore(defRoutines, pRoutines, p)

\* ------------------------------------------------------------------------
\* Construction of performers and routines, one object at a time

\* Performer(name): the routines argument is left to its default
NewPerformerDefault ==
    /\ status = "building"
    /\ Cardinality(Performers) < MaxPerformers
    /\ LET self == Cardinality(Performers) + 1
           h    == LinkRoutines([dP |-> defPerformers, rP |-> rPerformers], self, defRoutines)
       IN /\ defPerformers' = h.dP
          /\ rPerformers' \in Reordered(h.rP, Range(defRoutines))
          /\ pRoutines' = pRoutines @@ (self :> Shared)
    /\ UNCHANGED <<defRoutines, rOrder, rDuration, rEnergy>>
    /\ UNCHANGED schedVars

\* Performer(name, rs): rs is a list the caller built
NewPerformerOf ==
    /\ status = "building"
    /\ Cardinality(Performers) < MaxPerformers
    /\ \E rs \in DistinctLists(Routines) :
        LET self == Cardinality(Performers) + 1
            h    == LinkRoutines([dP |-> defPerformers, rP |-> rPerformers], self, rs)
        IN /\ defPerformers' = h.dP
           /\ rPerformers' \in Reordered(h.rP, Range(rs))
           /\ pRoutines' = pRoutines @@ (self :> Own(rs))
    /\ UNCHANGED <<defRoutines, rOrder, rDuration, rEnergy>>
    /\ UNCHANGED schedVars

\* Routine(name, ps): ps is a list the caller built; the other arguments
\* are left to their defaults
NewRoutineOf ==
    /\ status = "building"
    /\ Cardinality(Routines) < MaxRoutines
    /\ \E ps \in DistinctLists(Performers) :
        LET self == Cardinality(Routines) + 1
            h    == LinkPerformers([dR |-> defRoutines, pR |-> pRoutines], self, ps)
        IN /\ defRoutines' = h.dR
           /\ pRoutines' \in Reordered(h.pR, Range(ps))
           /\ rPerformers' = rPerformers @@ (self :> Own(ps))
           /\ rOrder' = rOrder @@ (self :> MaxSize)
           /\ rDuration' = rDuration @@ (self :> MaxSize)
           /\ rEnergy' = rEnergy @@ (self :> TRUE)
    /\ UNCHANGED defPerformers
    /\ UNCHANGED schedVars

\* Routine(name): the performers argument is left to its default too
NewRoutineDefault ==
    /\ status = "building"
    /\ Cardinality(Routines) < MaxRoutines
    /\ LET self == Cardinality(Routines) + 1
           h    == LinkPerformers([dR |-> defRoutines, pR |-> pRoutines], self, defPerformers)
       IN /\ defRoutines' = h.dR
          /\ pRoutines' \in Reordered(h.pR, Range(defPerformers))
          /\ rPerformers' = rPerformers @@ (self :> Shared)
          /\ rOrder' = rOrder @@ (self :> MaxSize)
          /\ rDuration' = rDuration @@ (self :> MaxSize)
          /\ rEnergy' = rEnergy @@ (self :> TRUE)
    /\ UNCHANGED defPerformers
    /\ UNCHANGED schedVars

NoCall == [op |-> "none", args |-> <<>>, value |-> 0, exc |-> FALSE,
           sentinel |-> FALSE, printed |-> <<>>]

NoScheduler ==
    /\ routines = <<>>
    /\ schedule = <<>>
    /\ unused = <<>>
    /\ sPerformers = {}
    /\ interArg = None
    /\ order0 = <<>>
    /\ printed = <<>>
    /\ lastCall = NoCall
    /\ stack = <<>>

InitBuild ==
    /\ defRoutines = <<>>
    /\ defPerformers = <<>>
    /\ pRoutines = <<>>
    /\ rPerformers = <<>>
    /\ rOrder = <<>>
    /\ rDuration = <<>>
    /\ rEnergy = <<>>
    /\ NoScheduler
    /\ status = "building"

NextBuild ==
    \/ NewPerformerDefault
    \/ NewPerformerOf
    \/ NewRoutineOf
    \/ NewRoutineDefault

SpecBuild == InitBuild /\ [][NextBuild]_vars

\* ------------------------------------------------------------------------
\* The objects the scoring functions read

BeamWidth == 3

At(s, i) == s[i + 1]

\* the 0-based position a Python index i denotes in a list of length L
PyIndex(i, L) == IF i < 0 THEN i + L ELSE i

InRange(i, L) == (0 - L) <= i /\ i < L

RECURSIVE SumSeq(_)
SumSeq(s) == IF s = <<>> THEN 0 ELSE Head(s) + SumSeq(Tail(s))

performersOf(r) == PerformersOf(defPerformers, rPerformers, r)

routinesOf(p) == RoutinesOf(defRoutines, pRoutines, p)

\* Routine.score
routScore(r) == SumSeq([i \in 1..Len(performersOf(r)) |-> score(performersOf(r)[i])])

\* Routine.samePerformers
samePerformers(r0, r1) ==
    SelectSeq(performersOf(r0), LAMBDA p : p \in Range(performersOf(r1)))

\* the name of a routine is '' for the placeholder only
NameIsEmpty(r) == r = Empty

\* schedule[i] == Routine('', []): Routine defines no __eq__, so the
\* comparison is one of identity with an object just constructed
EqualsNewRoutine(r) == FALSE

\* the energy test taken for an ordered pair only: routInd1 - routInd0 == 1
AdjacentLowEnergyForward(i0, i1, rout0, rout1) ==
    i1 - i0 = 1 /\ ~rEnergy[rout0] /\ ~rEnergy[rout1]

\* the condition of the two energy tests of score2routines
AdjacentLowEnergy(i0, i1, rout0, rout1) ==
    Abs(i0 - i1) = 1 /\ ~rEnergy[rout0] /\ ~rEnergy[rout1]

\* Scheduler.score2routines, with schedule, rout0 and rout1 given
score2routines(routInd0, routInd1, sched, rout0, rout1) ==
    LET same == samePerformers(rout0, rout1)
        priorityScale == SumSeq([i \in 1..Len(same) |-> score(same[i])])
        between == [k \in 1..Max(0, routInd1 - routInd0 - 1) |->
                      IF rDuration[At(sched, routInd0 + k)] = MaxSize
                      THEN (priorityScale * (rDuration[rout0] + rDuration[rout1])) \div 2
                      ELSE priorityScale * rDuration[At(sched, routInd0 + k)]]
    IN IF same = <<>>
       THEN IF AdjacentLowEnergy(routInd0, routInd1, rout0, rout1)
            THEN MaxSize - 1 ELSE MaxSize
       ELSE routScore(rout0) + routScore(rout1) + SumSeq(between)
            + (IF AdjacentLowEnergy(routInd0, routInd1, rout0, rout1)
               THEN rDuration[rout0] + rDuration[rout1] ELSE 0)

\* Scheduler.scoreRoutInSched
scoreRoutInSched(rout, pos, sched) ==
    SumSeq([k \in 1..Len(sched) |->
              IF k - 1 = pos \/ EqualsNewRoutine(sched[k]) THEN 0
              ELSE score2routines(k - 1, pos, sched, sched[k], rout)])

\* the rest one pair of consecutive routines of a performer adds, and
\* whether reading schedule[j] raises IndexError
PairRest(a, b, sched) ==
    LET lo == rOrder[a] + 1
        hi == rOrder[b] - 1
        L  == Len(sched)
        penalty == IF rOrder[a] - rOrder[b] <= 1
                   THEN 0 - (rDuration[a] + rDuration[b]) ELSE 0
    IN IF lo <= hi /\ (hi >= L \/ lo < 0 - L)
       THEN [exc |-> TRUE, val |-> 0]
       ELSE [exc |-> FALSE,
             val |-> penalty + SumSeq([k \in 1..Max(0, hi - lo + 1) |->
                         rDuration[At(sched, PyIndex(lo + k - 1, L))]])]

\* the rest component of one performer, scaled by the performer's score
PerfRest(p, sched) ==
    LET rs == routinesOf(p)
        pairs == AsList([i \in 1..Max(0, Len(rs) - 1) |-> PairRest(rs[i], rs[i + 1], sched)])
    IN [exc |-> \E i \in 1..Len(pairs) : pairs[i].exc,
        val |-> SumSeq([i \in 1..Len(pairs) |-> pairs[i].val]) * score(p)]

\* the energy component of scoreSchedule
EnergyScore(sched) ==
    SumSeq([i \in 1..Max(0, Len(sched) - 1) |->
              IF ~rEnergy[sched[i]] /\ ~rEnergy[sched[i + 1]]
              THEN rDuration[sched[i]] + rDuration[sched[i + 1]] ELSE 0])

\* Scheduler.scoreSchedule: the score, or the IndexError it raises
scoreSchedule(sched) ==
    LET ps == Ascending(sPerformers)
        rests == AsList([i \in 1..Len(ps) |-> PerfRest(ps[i], sched)])
    IN [exc |-> \E i \in 1..Len(rests) : rests[i].exc,
        val |-> SumSeq([i \in 1..Len(rests) |-> rests[i].val]) + EnergyScore(sched)]

\* ------------------------------------------------------------------------
\* The placement search

\* the first index of un whose routine has the greatest score
FirstBest(un) ==
    LET key == AsList([j \in 1..Len(un) |-> routScore(routines[un[j] + 1])])
    IN CHOOSE i \in 1..Len(un) :
          /\ \A j \in 1..Len(un) : key[j] <= key[i]
          /\ \A j \in 1..(i - 1) : key[j] < key[i]

\* the update of the lists pos and scores by one scored position i:
\* l[:j] + [x] + l[j+1:-1] at the first j whose score is lower
Replaced(l, j, x) == Slice(l, 0, j) \o <<x>> \o Slice(l, j + 1, Len(l) - 1)

RECURSIVE KeepBest(_, _, _, _)
KeepBest(best, j, i, sc) ==
    IF j >= Len(best.pos) THEN best
    ELSE IF sc > At(best.scores, j)
         THEN [pos |-> Replaced(best.pos, j, i), scores |-> Replaced(best.scores, j, sc)]
         ELSE KeepBest(best, j + 1, i, sc)

\* the scan of the schedule for the positions to try
RECURSIVE BestPositions(_, _, _, _)
BestPositions(best, i, rout, sched) ==
    IF i >= Len(sched) THEN best
    ELSE IF NameIsEmpty(At(sched, i))
         THEN BestPositions(KeepBest(best, 0, i, scoreRoutInSched(rout, i, sched)),
                            i + 1, rout, sched)
         ELSE BestPositions(best, i + 1, rout, sched)

\* schedule[:pos] + [rout] + schedule[pos:], the routine inserted before
\* the placeholder it should replace
PlacedInserted(sched, pos, rout) ==
    Slice(sched, 0, pos) \o <<rout>> \o Slice(sched, pos, Len(sched))

\* schedule[:pos] + [rout] + schedule[pos + 1:]
Placed(sched, pos, rout) ==
    Slice(sched, 0, pos) \o <<rout>> \o Slice(sched, pos + 1, Len(sched))

\* max(scheds, key=...): the first index whose key is the greatest; keys
\* holds scoreSchedule of each schedule
FirstMax(keys) ==
    CHOOSE i \in 1..Len(keys) :
        /\ \A j \in 1..Len(keys) : keys[j] <= keys[i]
        /\ \A j \in 1..(i - 1) : keys[j] < keys[i]

\* the routine sortHelper places: the first of the greatest score
Selected(un) == routines[un[FirstBest(un)] + 1]

\* the list pos when the scan of the schedule has ended
Tried(sched, un) ==
    LET k == Min(BeamWidth, Len(un))
    IN BestPositions([pos |-> [x \in 1..k |-> 0], scores |-> [x \in 1..k |-> 0]],
                     0, Selected(un), sched).pos

\* unused[:ind] + unused[ind + 2:], one index too many dropped
WithoutTwo(un, ind) == Slice(un, 0, ind - 1) \o Slice(un, ind + 1, Len(un))

\* unused[:ind] + unused[ind + 1:]; ind counts from 1 here
Without(un, ind) == Slice(un, 0, ind - 1) \o Slice(un, ind, Len(un))

\* Scheduler.sortHelper: the schedule it returns, or the IndexError it raises
RECURSIVE sortHelper(_, _)
sortHelper(sched, un) ==
    IF un = <<>> THEN [exc |-> FALSE, schedule |-> sched]
    ELSE LET rout == Selected(un)
             pos  == AsList(Tried(sched, un))
             rest == Without(un, FirstBest(un))
             subs == AsList([i \in 1..Len(pos) |->
                         sortHelper(Placed(sched, pos[i], rout), rest)])
             keys == AsList([i \in 1..Len(subs) |-> scoreSchedule(subs[i].schedule)])
         IN IF \E i \in 1..Len(subs) : subs[i].exc \/ keys[i].exc
            THEN [exc |-> TRUE, schedule |-> sched]
            ELSE subs[FirstMax(AsList([i \in 1..Len(keys) |-> keys[i].val]))]

\* ------------------------------------------------------------------------
\* Scheduler.__init__

\* the loop that writes the routines with an order below len(schedule) into
\* the schedule and collects the indices of the others;
\* st = [schedule, unused, printed, exc]
RECURSIVE PlaceFixed(_, _, _)
PlaceFixed(st, i, rs) ==
    IF i >= Len(rs) THEN st
    ELSE LET r == At(rs, i)
             o == rOrder[r]
             L == Len(st.schedule)
         IN IF o < L
            THEN IF ~InRange(o, L)
                 THEN [st EXCEPT !.exc = "IndexError"]
                 ELSE LET occupant == At(st.schedule, PyIndex(o, L))
                          occOrder == IF occupant = Empty THEN MaxSize ELSE rOrder[occupant]
                      IN IF occOrder = o
                         THEN [st EXCEPT
                                 !.printed = Append(@, [text |-> "Tried to assign multiple routines to the same position",
                                                        names |-> {}]),
                                 !.exc = "TypeError"]
                         ELSE PlaceFixed([st EXCEPT !.schedule[PyIndex(o, L) + 1] = r], i + 1, rs)
            ELSE PlaceFixed([st EXCEPT !.unused = Append(@, i)], i + 1, rs)

\* the search for the position of the intermission: the value of interOrder
\* when the while loop ends
RECURSIVE ZigZag(_, _, _)
ZigZag(interOrder, counter, sched) ==
    IF /\ interOrder < Len(sched)
       /\ interOrder >= 0
       /\ At(sched, interOrder) # Empty
    THEN ZigZag(IF counter % 2 = 0 THEN interOrder - counter ELSE interOrder + counter,
                counter + 1, sched)
    ELSE interOrder

\* the positions a caller asks for the intermission: the first and the last
ExplicitInter(n) == {0, n}

Construct ==
    /\ status = "building"
    /\ \E rs \in {AsList([k \in 1..Len(rOrder) |-> k])} :
       \E L  \in {Len(rs) + 1} :
       \E st \in {PlaceFixed([schedule |-> AsList([k \in 1..L |-> Empty]), unused |-> <<>>,
                               printed |-> <<>>, exc |-> ""], 0, rs)} :
       \E at \in {ZigZag(L \div 2, 0, st.schedule)} :
       \E io \in {None} \cup ExplicitInter(Len(rOrder)) :
           /\ interArg' = io
           /\ order0' = rOrder
           /\ IF io # None
              THEN \* intermLength is no name of the program
                   /\ status' = "construct:NameError"
                   /\ UNCHANGED <<routines, schedule, unused, sPerformers, printed,
                                  rOrder, rDuration, rEnergy, rPerformers>>
              ELSE IF st.exc # ""
              THEN /\ status' = "construct:" \o st.exc
                   /\ printed' = printed \o st.printed
                   /\ UNCHANGED <<routines, schedule, unused, sPerformers,
                                  rOrder, rDuration, rEnergy, rPerformers>>
              ELSE IF ~InRange(at, L)
              THEN /\ status' = "construct:IndexError"
                   /\ UNCHANGED <<routines, schedule, unused, sPerformers, printed,
                                  rOrder, rDuration, rEnergy, rPerformers>>
              ELSE /\ status' = "constructed"
                   /\ routines' = rs
                   /\ schedule' = [st.schedule EXCEPT ![PyIndex(at, L) + 1] = Inter]
                   /\ unused' = st.unused
                   /\ sPerformers' = UNION {Range(performersOf(r)) : r \in Range(rs)}
                   /\ rOrder' = (Empty :> MaxSize) @@ (Inter :> at) @@ rOrder
                   /\ rDuration' = (Empty :> MaxSize) @@ (Inter :> DefaultInterLength) @@ rDuration
                   /\ rEnergy' = (Empty :> TRUE) @@ (Inter :> TRUE) @@ rEnergy
                   /\ rPerformers' = (Empty :> Own(<<>>)) @@ (Inter :> Own(<<>>)) @@ rPerformers
                   /\ UNCHANGED printed
    /\ UNCHANGED <<defRoutines, defPerformers, pRoutines, lastCall, stack>>

\* ------------------------------------------------------------------------
\* Scheduler.sortRoutines

\* the loop that sets the orders; st = [order, printed]
RECURSIVE SetOrders(_, _, _)
SetOrders(st, i, sched) ==
    IF i >= Len(sched) THEN st
    ELSE LET r == At(sched, i)
         IN IF st.order[r] # i
            THEN SetOrders([order   |-> [st.order EXCEPT ![r] = i],
                            printed |-> IF st.order[r] < Len(sched)
                                        THEN Append(st.printed, [text |-> "Moved a set routine", names |-> {r}])
                                        ELSE st.printed],
                           i + 1, sched)
            ELSE SetOrders(st, i + 1, sched)

Sort ==
    /\ status = "constructed"
    /\ \E res \in {sortHelper(schedule, unused)} :
       \E st  \in {SetOrders([order |-> rOrder, printed |-> printed], 0, res.schedule)} :
          IF res.exc
          THEN /\ status' = "sort:IndexError"
               /\ UNCHANGED <<schedule, rOrder, printed>>
          ELSE /\ status' = "sorted"
               /\ schedule' = res.schedule
               /\ rOrder' = st.order
               /\ printed' = st.printed
    /\ lastCall' = NoCall
    /\ UNCHANGED <<defRoutines, defPerformers, pRoutines, rPerformers, rDuration, rEnergy,
                   routines, unused, sPerformers, interArg, order0, stack>>

\* ------------------------------------------------------------------------
\* The runs of the test file: the performers are constructed first, each
\* with the default routines list, then the routines, each with a list of
\* performers, then the Scheduler of all routines.

\* the lists of performers a routine is constructed with: one performer each
CastChoices == {<<p>> : p \in 1..MaxPerformers}

\* the orders a routine of a run of n routines is constructed with
OrderChoices(n) == {0 - 1} \cup (0..n) \cup {MaxSize}

DurationChoices == {200}

EnergyChoices == {TRUE}

RECURSIVE LinkAll(_, _, _)
LinkAll(h, k, casts) ==
    IF k > Len(casts) THEN h
    ELSE LinkAll(LinkPerformers(h, k, casts[k]), k + 1, casts)

\* The performers of a run are constructed alike before any routine, so a
\* run is told from another only by which routines list the same performers:
\* the performers are numbered in the order the routines first list them.
FirstUse(p, casts) ==
    IF \E k \in 1..Len(casts) : p \in Range(casts[k])
    THEN CHOOSE k \in 1..Len(casts) :
            /\ p \in Range(casts[k])
            /\ \A j \in 1..(k - 1) : p \notin Range(casts[j])
    ELSE Len(casts) + 1

NumberedByFirstUse(casts) ==
    \A p, q \in 1..MaxPerformers : p < q => FirstUse(p, casts) <= FirstUse(q, casts)

\* the state after the constructions of a run of n routines
World(n, castSet, orderSet, durationSet, energySet) ==
    \E casts \in {c \in [1..n -> castSet] : NumberedByFirstUse(c)} :
        LET h == LinkAll([dR |-> <<>>, pR |-> [p \in 1..MaxPerformers |-> Shared]], 1, casts)
        IN /\ defRoutines = h.dR
           /\ defPerformers = <<>>
           /\ pRoutines \in Reordered(h.pR, {p \in 1..MaxPerformers : ~h.pR[p].alias})
           /\ rPerformers = [k \in 1..n |-> Own(casts[k])]
           /\ rOrder \in [1..n -> orderSet]
           /\ rDuration \in [1..n -> durationSet]
           /\ rEnergy \in [1..n -> energySet]
           /\ NoScheduler
           /\ status = "building"

InitSched ==
    \E n \in 0..MaxRoutines :
        World(n, CastChoices, OrderChoices(n), DurationChoices, EnergyChoices)

Next ==
    \/ Construct
    \/ Sort

Spec == InitSched /\ [][Next]_vars

\* ------------------------------------------------------------------------
\* The placement search call by call: stack holds one frame for each call
\* of sortHelper that has not returned, the latest last

\* the frame of the call sortHelper(sched, un): its two arguments, the list
\* pos when the scan has ended and the list scheds, empty before the calls
Frame(sched, un) ==
    [schedule |-> sched, unused |-> un,
     pos      |-> IF un = <<>> THEN <<>> ELSE AsList(Tried(sched, un)),
     scheds   |-> <<>>]

Top == stack[Len(stack)]

\* the call has made all its calls: the loop over pos has ended
Returning(f) == Len(f.scheds) = Len(f.pos)

\* what the call returns: the schedule it got when nothing is unused, else
\* max(scheds, key=scoreSchedule), or the IndexError scoreSchedule raises
Returned(f) ==
    IF f.unused = <<>> THEN [exc |-> FALSE, schedule |-> f.schedule]
    ELSE LET keys == AsList([i \in 1..Len(f.scheds) |-> scoreSchedule(f.scheds[i])])
         IN IF \E i \in 1..Len(keys) : keys[i].exc
            THEN [exc |-> TRUE, schedule |-> f.schedule]
            ELSE [exc |-> FALSE,
                  schedule |-> f.scheds[FirstMax(AsList([i \in 1..Len(keys) |-> keys[i].val]))]]

\* the stack when sortHelper(sched, un) is called with the caller's list
\* itself written to, as schedule[pos] = rout would do
CalledInPlace(stk, sched, un) ==
    Append([d \in 1..Len(stk) |-> IF d = Len(stk) THEN [stk[d] EXCEPT !.schedule = sched]
                                                  ELSE stk[d]],
           Frame(sched, un))

\* the stack when sortHelper(sched, un) is called: the arguments are new
\* lists, built by slicing and concatenation
Called(stk, sched, un) == Append(stk, Frame(sched, un))

\* sortRoutines calls sortHelper(self.schedule, self.unused)
SortEnter ==
    /\ status = "constructed"
    /\ status' = "sorting"
    /\ stack' = Called(<<>>, schedule, unused)
    /\ lastCall' = NoCall
    /\ UNCHANGED heapVars
    /\ UNCHANGED <<routines, schedule, unused, sPerformers, interArg, order0, printed>>

\* the call on top makes its next call of sortHelper
HelperCall ==
    /\ status = "sorting"
    /\ ~Returning(Top)
    /\ \E rout \in {Selected(Top.unused)} :
           stack' = Called(stack, Placed(Top.schedule, Top.pos[Len(Top.scheds) + 1], rout),
                           Without(Top.unused, FirstBest(Top.unused)))
    /\ UNCHANGED heapVars
    /\ UNCHANGED <<routines, schedule, unused, sPerformers, interArg, order0, printed,
                   lastCall, status>>

\* a call made by sortHelper returns to its caller, which appends the
\* schedule to scheds
HelperReturn ==
    /\ status = "sorting"
    /\ Len(stack) > 1
    /\ Returning(Top)
    /\ \E res \in {Returned(Top)} :
          IF res.exc
          THEN /\ status' = "sort:IndexError"
               /\ stack' = <<>>
          ELSE /\ stack' = [d \in 1..(Len(stack) - 1) |->
                               IF d = Len(stack) - 1
                               THEN [stack[d] EXCEPT !.scheds = Append(@, res.schedule)]
                               ELSE stack[d]]
               /\ UNCHANGED status
    /\ UNCHANGED heapVars
    /\ UNCHANGED <<routines, schedule, unused, sPerformers, interArg, order0, printed,
                   lastCall>>

\* the call made by sortRoutines returns: sortRoutines stores the schedule
\* and sets the orders
SortReturn ==
    /\ status = "sorting"
    /\ Len(stack) = 1
    /\ Returning(Top)
    /\ \E res \in {Returned(Top)} :
       \E st  \in {SetOrders([order |-> rOrder, printed |-> printed], 0, res.schedule)} :
          IF res.exc
          THEN /\ status' = "sort:IndexError"
               /\ UNCHANGED <<schedule, rOrder, printed>>
          ELSE /\ status' = "sorted"
               /\ schedule' = res.schedule
               /\ rOrder' = st.order
               /\ printed' = st.printed
    /\ stack' = <<>>
    /\ UNCHANGED <<defRoutines, defPerformers, pRoutines, rPerformers, rDuration, rEnergy,
                   routines, unused, sPerformers, interArg, order0, lastCall>>

InitSearch ==
    \E n \in 0..MaxRoutines :
        World(n, CastChoices, OrderChoices(n), DurationChoices, EnergyChoices)

NextSearch ==
    \/ Construct
    \/ SortEnter
    \/ HelperCall
    \/ HelperReturn
    \/ SortReturn

SpecSearch == InitSearch /\ [][NextSearch]_vars

\* ------------------------------------------------------------------------
\* The scoring functions called on the stored schedule

\* whether score2routines takes the unknown duration as an operand
S2RSentinel(routInd0, routInd1, sched, rout0, rout1) ==
    /\ samePerformers(rout0, rout1) # <<>>
    /\ rDuration[rout0] = MaxSize \/ rDuration[rout1] = MaxSize
    /\ \/ AdjacentLowEnergy(routInd0, routInd1, rout0, rout1)
       \/ \E k \in 1..Max(0, routInd1 - routInd0 - 1) :
             rDuration[At(sched, routInd0 + k)] = MaxSize

\* whether scoreRoutInSched does, in one of its calls of score2routines
SRISSentinel(rout, pos, sched) ==
    \E k \in 1..Len(sched) :
        /\ k - 1 # pos
        /\ ~EqualsNewRoutine(sched[k])
        /\ S2RSentinel(k - 1, pos, sched, sched[k], rout)

\* whether scoreSchedule does (when it raises no IndexError)
SSSentinel(sched) ==
    \/ \E p \in sPerformers : \E i \in 1..Max(0, Len(routinesOf(p)) - 1) :
          LET a == routinesOf(p)[i]
              b == routinesOf(p)[i + 1]
          IN \/ /\ rOrder[a] - rOrder[b] <= 1
                /\ rDuration[a] = MaxSize \/ rDuration[b] = MaxSize
             \/ \E j \in (rOrder[a] + 1)..Min(rOrder[b] - 1, Len(sched) - 1) :
                   rDuration[At(sched, PyIndex(j, Len(sched)))] = MaxSize
    \/ \E i \in 1..Max(0, Len(sched) - 1) :
          /\ ~rEnergy[sched[i]] /\ ~rEnergy[sched[i + 1]]
          /\ rDuration[sched[i]] = MaxSize \/ rDuration[sched[i + 1]] = MaxSize

\* score2routines(i, j)
ScoreTwo ==
    /\ status \in {"constructed", "sorted"}
    /\ \E i, j \in 0..(Len(schedule) - 1) :
        lastCall' = [op |-> "score2routines", args |-> <<i, j>>,
                     value |-> score2routines(i, j, schedule, At(schedule, i), At(schedule, j)),
                     exc |-> FALSE,
                     sentinel |-> S2RSentinel(i, j, schedule, At(schedule, i), At(schedule, j)),
                     printed |-> <<>>]
    /\ UNCHANGED heapVars
    /\ UNCHANGED <<routines, schedule, unused, sPerformers, interArg, order0, printed, status,
                   stack>>

\* score2routines(i, pos, schedule, schedule[i], rout), the call that
\* scoreRoutInSched makes for each position i
ScoreTwoOf ==
    /\ status \in {"constructed", "sorted"}
    /\ \E i, pos \in 0..(Len(schedule) - 1) : \E rout \in Range(routines) :
        lastCall' = [op |-> "score2routinesOf", args |-> <<i, pos, rout>>,
                     value |-> score2routines(i, pos, schedule, At(schedule, i), rout),
                     exc |-> FALSE,
                     sentinel |-> S2RSentinel(i, pos, schedule, At(schedule, i), rout),
                     printed |-> <<>>]
    /\ UNCHANGED heapVars
    /\ UNCHANGED <<routines, schedule, unused, sPerformers, interArg, order0, printed, status,
                   stack>>

\* scoreRoutInSched(rout, pos)
ScoreRoutAt ==
    /\ status \in {"constructed", "sorted"}
    /\ \E rout \in Range(routines) : \E pos \in 0..(Len(schedule) - 1) :
        lastCall' = [op |-> "scoreRoutInSched", args |-> <<rout, pos>>,
                     value |-> scoreRoutInSched(rout, pos, schedule),
                     exc |-> FALSE,
                     sentinel |-> SRISSentinel(rout, pos, schedule),
                     printed |-> IF ~NameIsEmpty(At(schedule, pos)) /\ At(schedule, pos) # rout
                                 THEN <<[text |-> "Tried to score multiple routines in the same position",
                                         names |-> {At(schedule, pos), rout}]>>
                                 ELSE <<>>]
    /\ UNCHANGED heapVars
    /\ UNCHANGED <<routines, schedule, unused, sPerformers, interArg, order0, printed, status,
                   stack>>

\* scoreSchedule()
ScoreSched ==
    /\ status \in {"constructed", "sorted"}
    /\ lastCall' = [op |-> "scoreSchedule", args |-> <<>>,
                    value |-> scoreSchedule(schedule).val,
                    exc |-> scoreSchedule(schedule).exc,
                    sentinel |-> ~scoreSchedule(schedule).exc /\ SSSentinel(schedule),
                    printed |-> <<>>]
    /\ UNCHANGED heapVars
    /\ UNCHANGED <<routines, schedule, unused, sPerformers, interArg, order0, printed, status,
                   stack>>

\* The runs that score: the routines are constructed without an order, with
\* any performers, a known or an unknown duration and either energy
MaxScored == 2

ScoreCastChoices == {Ascending(T) : T \in (SUBSET (1..MaxPerformers)) \ {{}}}

ScoreDurationChoices == {200, MaxSize}

InitScore ==
    \E n \in 0..MaxScored :
        World(n, ScoreCastChoices, {MaxSize}, ScoreDurationChoices, BOOLEAN)

NextScore ==
    \/ Construct
    \/ Sort
    \/ ScoreTwo
    \/ ScoreTwoOf
    \/ ScoreRoutAt
    \/ ScoreSched

SpecScore == InitScore /\ [][NextScore]_vars

\* ------------------------------------------------------------------------
\* The properties

\* the number of input routines, and the length of the schedule
NumRoutines == Len(order0)

SchedLen == Len(order0) + 1

Constructed == status \in {"constructed", "sorted", "sort:IndexError"}

\* the routine was constructed with an order that is a schedule position
FixedOrder(r) == order0[r] \in 0..NumRoutines

\* every routine has an order that is a schedule position, or none
AllFixedOrNone == \A r \in 1..NumRoutines : FixedOrder(r) \/ order0[r] = MaxSize

\* the input routine at position i of the schedule, if it is one
InputAt(i) == At(schedule, i) \in 1..NumRoutines

\* C1: a routine is in a performer's routines exactly when the performer is
\* in the routine's performers
LinkInvariant ==
    \A p \in Performers : \A r \in Routines :
        (r \in Range(RoutinesOf(defRoutines, pRoutines, p)))
            <=> (p \in Range(PerformersOf(defPerformers, rPerformers, r)))

\* C2: after sortRoutines on routines that each have an order inside the
\* schedule or none, the schedule has one more position than there are
\* routines, no position holds the placeholder and no object is at two
\* positions
EveryPositionFilledOnce ==
    (status = "sorted" /\ AllFixedOrNone) =>
        /\ Len(schedule) = SchedLen
        /\ \A i \in 1..Len(schedule) : schedule[i] # Empty
        /\ \A i, j \in 1..Len(schedule) : schedule[i] = schedule[j] => i = j

\* a run of C2: the search has placed two routines around a fixed one
SearchFilledSchedule ==
    /\ status = "sorted"
    /\ AllFixedOrNone
    /\ Len(unused) >= 2
    /\ \E r \in 1..NumRoutines : FixedOrder(r)

\* C3: a routine constructed with an order inside the schedule is at that
\* position after the construction and after sortRoutines
FixedRoutineKeepsPosition ==
    status \in {"constructed", "sorted"} =>
        \A r \in 1..NumRoutines : FixedOrder(r) => At(schedule, order0[r]) = r

\* C4: an explicit intermission position is honoured: the construction
\* succeeds and the intermission, with its duration, is at that position
ExplicitIntermissionHonoured ==
    (status # "building" /\ interArg # None) =>
        /\ status = "constructed"
        /\ At(schedule, interArg) = Inter
        /\ rDuration[Inter] = DefaultInterLength

\* the positions no routine was written to by the loop of the constructor
FreePositions ==
    {i \in 0..NumRoutines :
        \A r \in 1..NumRoutines :
            order0[r] < SchedLen => PyIndex(order0[r], SchedLen) # i}

InterPosition == CHOOSE i \in 0..NumRoutines : At(schedule, i) = Inter

\* C5: without an explicit position the intermission goes to a free
\* position nearest to the midpoint, and the construction fails for the
\* intermission only when no position is free
IntermissionNearestFree ==
    /\ (status = "construct:IndexError" /\ interArg = None) => FreePositions = {}
    /\ (status = "constructed" /\ interArg = None) =>
          /\ InterPosition \in FreePositions
          /\ \A f \in FreePositions :
                Abs(InterPosition - SchedLen \div 2) <= Abs(f - SchedLen \div 2)

\* two input routines constructed with the same position of the schedule
Conflict(a, b) == a # b /\ FixedOrder(a) /\ order0[a] = order0[b]

\* C6: when two routines have the same fixed position the constructor
\* prints a line that names both
ConflictNamesBoth ==
    (status # "building" /\ interArg = None
        /\ \E a, b \in 1..NumRoutines : Conflict(a, b)) =>
        \E a, b \in 1..NumRoutines :
            /\ Conflict(a, b)
            /\ \E k \in 1..Len(printed) : {a, b} \subseteq printed[k].names

\* C7: a performer's score is the square of the number of distinct routines
\* that list the performer
ScoreIsSquareOfAppearances ==
    \A p \in Performers :
        LET n == Cardinality({r \in Routines :
                     p \in Range(PerformersOf(defPerformers, rPerformers, r))})
        IN score(p) = n * n

\* C8: no call of a scoring function takes the unknown duration as an
\* operand of the score
NoSentinelInScore ==
    lastCall.op # "none" => ~lastCall.sentinel

\* C9: if sortRoutines finds a set routine (one with an order below the
\* length of the schedule) at another index, it does not return normally
\* and leaves the order of that routine as it was
MovedRoutineIsFatal ==
    \A k \in 1..Len(printed) :
        printed[k].text = "Moved a set routine" =>
            /\ status # "sorted"
            /\ \A r \in printed[k].names : rOrder[r] = order0[r]

\* C10: after sortRoutines the object at each index of the schedule has
\* that index as its order
OrdersMatchPositions ==
    status = "sorted" =>
        \A i \in 0..(Len(schedule) - 1) : rOrder[At(schedule, i)] = i

\* the two routines of the last call of score2routines with rout0 and
\* rout1 given, and whether a performer is in both
PairCall == lastCall.op = "score2routinesOf"

PairRout0 == At(schedule, lastCall.args[1])

PairRout1 == lastCall.args[3]

PairShares ==
    Range(performersOf(PairRout0)) \cap Range(performersOf(PairRout1)) # {}

PairAdjacentLow ==
    /\ Abs(lastCall.args[1] - lastCall.args[2]) = 1
    /\ ~rEnergy[PairRout0] /\ ~rEnergy[PairRout1]

\* C11: for two routines without a common performer score2routines returns
\* the sentinel, less 1 exactly when the positions are adjacent and both
\* routines are low-energy; for two routines of known durations with a
\* common performer it returns less than either of these values
UnrelatedPairScoresHighest ==
    PairCall =>
        /\ ~PairShares =>
              lastCall.value = (IF PairAdjacentLow THEN MaxSize - 1 ELSE MaxSize)
        /\ (PairShares /\ rDuration[PairRout0] # MaxSize /\ rDuration[PairRout1] # MaxSize) =>
              lastCall.value < MaxSize - 1

\* a run of C11: an adjacent low-energy pair without a common performer
UnrelatedAdjacentLowPairScored ==
    PairCall /\ ~PairShares /\ PairAdjacentLow /\ PairRout0 \in 1..NumRoutines

\* a pair of known durations with a common performer is scored too, with a
\* position between the two
RelatedPairScored ==
    /\ PairCall /\ PairShares /\ PairRout0 # PairRout1
    /\ rDuration[PairRout0] # MaxSize /\ rDuration[PairRout1] # MaxSize
    /\ lastCall.args[2] - lastCall.args[1] >= 2

\* the sum of score2routines over the positions other than pos that hold
\* no placeholder
OccupiedSum(rout, pos, sched) ==
    SumSeq([k \in 1..Len(sched) |->
              IF k - 1 = pos \/ NameIsEmpty(sched[k]) THEN 0
              ELSE score2routines(k - 1, pos, sched, sched[k], rout)])

\* C12: scoreRoutInSched returns the sum of score2routines over the other
\* occupied positions: a position holding the placeholder adds nothing
PlaceholderAddsNothing ==
    lastCall.op = "scoreRoutInSched" =>
        lastCall.value = OccupiedSum(lastCall.args[1], lastCall.args[2], schedule)

\* the rest C14 gives one pair of consecutive routines of a performer:
\* both durations off when the positions differ by 1, the durations strictly
\* between the positions otherwise
AdjacentOrBetweenRest(a, b, sched) ==
    LET lo == Min(rOrder[a], rOrder[b])
        hi == Max(rOrder[a], rOrder[b])
    IN IF hi - lo = 1
       THEN 0 - (rDuration[a] + rDuration[b])
       ELSE SumSeq([k \in 1..Max(0, hi - lo - 1) |-> rDuration[At(sched, lo + k)]])

AdjacentOrBetweenScore(sched) ==
    SumSeq([q \in 1..Len(Ascending(sPerformers)) |->
        LET p  == Ascending(sPerformers)[q]
            rs == routinesOf(p)
        IN score(p) * SumSeq([i \in 1..Max(0, Len(rs) - 1) |->
                          AdjacentOrBetweenRest(rs[i], rs[i + 1], sched)])])

\* C14: on a sorted schedule the rest component of scoreSchedule takes, for
\* each consecutive pair of a performer's routines, both durations off when
\* the positions are adjacent and adds the durations between them otherwise
RestIsAdjacentOrBetween ==
    (status = "sorted" /\ lastCall.op = "scoreSchedule") =>
        /\ ~lastCall.exc
        /\ lastCall.value = AdjacentOrBetweenScore(schedule) + EnergyScore(schedule)

\* the score C16 gives a pair with a common performer: the term of every
\* position strictly between the two, whichever comes first
BetweenEitherWay(i, pos, sched, rout0, rout1) ==
    LET same == samePerformers(rout0, rout1)
        priorityScale == SumSeq([q \in 1..Len(same) |-> score(same[q])])
        lo == Min(i, pos)
        hi == Max(i, pos)
    IN routScore(rout0) + routScore(rout1)
       + SumSeq([k \in 1..Max(0, hi - lo - 1) |->
            IF rDuration[At(sched, lo + k)] = MaxSize
            THEN (priorityScale * (rDuration[rout0] + rDuration[rout1])) \div 2
            ELSE priorityScale * rDuration[At(sched, lo + k)]])
       + (IF PairAdjacentLow THEN rDuration[rout0] + rDuration[rout1] ELSE 0)

\* C16: for a routine at pos and the routine at i with a common performer
\* the score holds priorityScale x duration for every position strictly
\* between i and pos, with i before pos or after it
BetweenCountsEitherWay ==
    (PairCall /\ PairShares) =>
        lastCall.value = BetweenEitherWay(lastCall.args[1], lastCall.args[2], schedule,
                                          PairRout0, PairRout1)

\* C17: after the construction the index of a routine is in unused exactly
\* when its order is no position of the schedule, and only the routines with
\* an order that is one are in the schedule
UnusedIffNoValidOrder ==
    status = "constructed" =>
        \A r \in 1..NumRoutines :
            /\ (r - 1) \in Range(unused) <=> ~FixedOrder(r)
            /\ routines[r] \in Range(schedule) => FixedOrder(r)

\* the positions of sched that hold the placeholder
EmptyPositions(sched) == {i \in 0..(Len(sched) - 1) : NameIsEmpty(At(sched, i))}

\* position i is ahead of position j for rout: a higher score, or the same
\* score and seen earlier in the scan
Ahead(i, j, rout, sched) ==
    \/ scoreRoutInSched(rout, i, sched) > scoreRoutInSched(rout, j, sched)
    \/ scoreRoutInSched(rout, i, sched) = scoreRoutInSched(rout, j, sched) /\ i < j

\* the k empty positions that no k others are ahead of
TopPositions(k, rout, sched) ==
    {i \in EmptyPositions(sched) :
        Cardinality({j \in EmptyPositions(sched) : Ahead(j, i, rout, sched)}) < k}

\* C13: in every call of the search with a routine to place the positions
\* recursed on are the k = min(beamWidth, number of empty positions) empty
\* positions of the highest scoreRoutInSched, ties to the one seen first
RecursesOnTopPositions ==
    status = "sorting" =>
        \A d \in 1..Len(stack) :
            stack[d].unused # <<>> =>
                Range(stack[d].pos) =
                    TopPositions(Min(BeamWidth, Cardinality(EmptyPositions(stack[d].schedule))),
                                 Selected(stack[d].unused), stack[d].schedule)

\* the position routine r has in the candidate schedule cand
PositionIn(r, cand) == (CHOOSE i \in 1..Len(cand) : cand[i] = r) - 1

\* the rest of one pair of consecutive routines of a performer as line 333
\* to 337 compute it, from the positions the two have in cand
CandidatePairRest(a, b, cand) ==
    LET pa == PositionIn(a, cand)
        pb == PositionIn(b, cand)
    IN (IF pa - pb <= 1 THEN 0 - (rDuration[a] + rDuration[b]) ELSE 0)
       + SumSeq([k \in 1..Max(0, pb - pa - 1) |-> rDuration[At(cand, pa + k)]])

CandidateRest(p, cand) ==
    LET rs == routinesOf(p)
    IN score(p) * SumSeq([i \in 1..Max(0, Len(rs) - 1) |->
                     CandidatePairRest(rs[i], rs[i + 1], cand)])

\* C15: for every candidate schedule a call of the search has got back and
\* will compare, scoreSchedule takes the rest of each performer whose
\* routines were not placed beforehand from the positions the routines have
\* in that candidate
RestFromCandidatePositions ==
    status = "sorting" =>
        \A d \in 1..Len(stack) : \A i \in 1..Len(stack[d].scheds) :
            \A p \in sPerformers :
                LET cand == stack[d].scheds[i]
                IN (/\ Range(routinesOf(p)) \subseteq Range(cand)
                    /\ \A r \in Range(routinesOf(p)) : rOrder[r] = MaxSize
                    /\ ~PerfRest(p, cand).exc)
                   => PerfRest(p, cand).val = CandidateRest(p, cand)

\* the calls in progress: call d has d - 1 routines fewer to place than
\* sortRoutines passed, recurses on at most beamWidth positions, and has
\* either returned calls left to make or none
SearchShape(stk) ==
    /\ stk # <<>>
    /\ Len(stk) <= Len(unused) + 1
    /\ \A d \in 1..Len(stk) :
          /\ Len(stk[d].unused) = Len(unused) - (d - 1)
          /\ Len(stk[d].pos) <= BeamWidth
          /\ Len(stk[d].scheds) <= Len(stk[d].pos)
          /\ stk[d].unused = <<>> <=> d = Len(unused) + 1

RECURSIVE Power(_, _)
Power(b, e) == IF e <= 0 THEN 1 ELSE b * Power(b, e - 1)

\* how far the search is: the calls returned to each call in progress, read
\* as the digits of a number, the first call's digit first
Progress(stk) ==
    SumSeq([d \in 1..Len(stk) |->
              (Len(stk[d].scheds) + 1) * Power(BeamWidth + 2, Len(unused) + 1 - d)])

\* C18: sortRoutines terminates: every call of sortHelper has one routine
\* fewer to place than its caller, so the depth of the calls is the number
\* of unplaced routines, a call makes at most beamWidth calls, and every
\* call and every return takes the search further towards a bound
SearchTerminates ==
    [][/\ status' = "sorting" =>
            /\ SearchShape(stack')
            /\ Progress(stack') <= Power(BeamWidth + 2, Len(unused) + 1)
       /\ (status = "sorting" /\ status' = "sorting") =>
            Progress(stack') > Progress(stack)]_vars

\* the search has reached the call with nothing left to place, in a branch
\* after the first, with two routines or more to place
SearchAtFullDepth ==
    /\ status = "sorting"
    /\ Len(unused) >= 2
    /\ Len(stack) = Len(unused) + 1
    /\ Top.unused = <<>>
    /\ \E d \in 1..Len(stack) : Len(stack[d].scheds) >= 1

\* the position the call f tries in the call it is making
Trying(f) == f.pos[Len(f.scheds) + 1]

\* C19: while the search runs no step changes the schedule or the unused
\* list a call in progress was given, those of sortRoutines included, or
\* the order of a routine, and the schedule a call passes on differs from
\* the one it was given at the position it tries only, whatever the
\* branches before have placed
SearchKeepsArguments ==
    [][/\ status' = "sorting" =>
            /\ stack'[1].schedule = schedule' /\ stack'[1].unused = unused'
            /\ \A d \in 2..Len(stack') : \A i \in 0..(Len(schedule') - 1) :
                  i # Trying(stack'[d - 1]) =>
                      At(stack'[d].schedule, i) = At(stack'[d - 1].schedule, i)
       /\ (status = "sorting" /\ status' = "sorting") =>
            /\ rOrder' = rOrder /\ schedule' = schedule /\ unused' = unused
            /\ \A d \in 1..Min(Len(stack), Len(stack')) :
                  /\ stack'[d].schedule = stack[d].schedule
                  /\ stack'[d].unused = stack[d].unused]_vars

\* a call is in its second branch or a later one, and the position its
\* first branch filled is empty in the schedule of this one
LaterBranchStartsAfresh ==
    /\ status = "sorting"
    /\ \E d \in 1..(Len(stack) - 1) :
          /\ Len(stack[d].scheds) >= 1
          /\ At(stack[d].scheds[1], stack[d].pos[1]) # Empty
          /\ At(stack[d + 1].schedule, stack[d].pos[1]) = Empty

\* the search call by call ends as sortRoutines computed in one step does
SearchAgrees ==
    status = "sorting" =>
        \A d \in 1..Len(stack) : \A i \in 1..Len(stack[d].scheds) :
            LET f == stack[d]
                sub == sortHelper(Placed(f.schedule, f.pos[i], Selected(f.unused)),
                                  Without(f.unused, FirstBest(f.unused)))
            IN ~sub.exc /\ sub.schedule = f.scheds[i]

====
